---- MODULE Spec2Model ----
(***************************************************************************)
(* ins_nav: geodetic transforms (ECEF <-> LLH), direction cosine matrices  *)
(* and local navigation frames (NED, ENU), after src/ins_nav/transforms.py *)
(* and src/ins_nav/wgs84.py.                                               *)
(*                                                                         *)
(* Numbers.  The code computes in IEEE doubles.  Here a dimensionless      *)
(* number and an angle (radians or degrees) are integers in units of       *)
(* 1/Scale (1e-6), and a length is an integer number of metres.  Products  *)
(* and quotients are computed limb by limb so that every intermediate      *)
(* value stays inside the 32-bit range of the model checker.  The          *)
(* elementary functions are series evaluated in this arithmetic; they      *)
(* agree with math.sin, math.cos, math.atan2 and math.sqrt to a few units  *)
(* (a few 1e-6), so positions are resolved to some tens of metres and      *)
(* angles to about 1e-4 degree.  Tolerances below are stated in these      *)
(* units.                                                                  *)
(***************************************************************************)
EXTENDS Integers, Sequences, FiniteSets, TLC

VARIABLES call, a, b, res

vars == <<call, a, b, res>>

Scale == 1000 * 1000

\* The element of a one-element set.  The({e(x) : x \in {v}}) evaluates v
\* once and names its value x, as an assignment x = v does.
The(S) == CHOOSE r \in S : TRUE

Abs(v) == IF v < 0 THEN -v ELSE v

Sgn(v) == IF v > 0 THEN 1 ELSE IF v < 0 THEN -1 ELSE 0

Max(u, v) == IF u >= v THEN u ELSE v

Min(u, v) == IF u <= v THEN u ELSE v

\* u * v of two doubles, one of them in units of 1/Scale: (u*v)/Scale, truncated.
mul(u, v) ==
    The({ (LET ah == Abs(x) \div 1000
               al == Abs(x) % 1000
               bh == Abs(y) \div 1000
               bl == Abs(y) % 1000
           IN  Sgn(x) * Sgn(y) *
                 (ah * bh + ((ah * bl + al * bh) + (al * bl) \div 1000) \div 1000))
          : x \in {u}, y \in {v} })

\* One decimal digit of a long division: <<quotient so far, remainder>>.
DivDigit(s, y) == <<s[1] * 10 + (s[2] * 10) \div y, (s[2] * 10) % y>>

\* u / v of two doubles in the same unit, v # 0: (u*Scale)/v, truncated
\* (long division, six decimal digits after the integer quotient).
div(u, v) ==
    The({ Sgn(x) * Sgn(y) *
            (((Abs(x) \div Abs(y)) * Scale) +
             The({ s6[1] :
                   s6 \in {DivDigit(s5, Abs(y)) :
                   s5 \in {DivDigit(s4, Abs(y)) :
                   s4 \in {DivDigit(s3, Abs(y)) :
                   s3 \in {DivDigit(s2, Abs(y)) :
                   s2 \in {DivDigit(s1, Abs(y)) :
                   s1 \in {DivDigit(<<0, Abs(x) % Abs(y)>>, Abs(y))}}}}}} }))
          : x \in {u}, y \in {v} })

\* One Newton step towards the square root of v.
NewtonStep(v, r) == The({ (x + div(v, x)) \div 2 : x \in {r} })

\* math.sqrt of a dimensionless v in [1/4, 4].
sqrt(v) ==
    The({ NewtonStep(x, NewtonStep(x, NewtonStep(x, NewtonStep(x, NewtonStep(x, Scale)))))
          : x \in {v} })

\* pow(v, 3.0 / 2.0)
pow_3_2(v) == The({ mul(x, sqrt(x)) : x \in {v} })

\* sqrt(x**2 + y**2) of two lengths: the larger one times sqrt(1 + t*t), t their ratio.
hypot(x, y) ==
    The({ IF m = 0 THEN 0
          ELSE The({ mul(m, sqrt(Scale + mul(t, t))) : t \in {div(n, m)} })
          : m \in {Max(Abs(x), Abs(y))}, n \in {Min(Abs(x), Abs(y))} })

\* math.pi
PI == 3141593

HalfPi == PI \div 2

\* sin x for |x| <= pi/2: x(1 - x2/6(1 - x2/20(1 - x2/42(1 - x2/72(1 - x2/110)))))
SinSeries(x) ==
    The({ mul(y, Scale - mul(x2, Scale - mul(x2, Scale - mul(x2,
              Scale - mul(x2, Scale - x2 \div 110) \div 72) \div 42) \div 20) \div 6)
          : y \in {x}, x2 \in {mul(x, x)} })

\* cos x for |x| <= pi/2: 1 - x2/2(1 - x2/12(1 - x2/30(1 - x2/56(1 - x2/90(1 - x2/132)))))
CosSeries(x) ==
    The({ Scale - mul(x2, Scale - mul(x2, Scale - mul(x2, Scale - mul(x2,
              Scale - mul(x2, Scale - x2 \div 132) \div 90) \div 56) \div 30) \div 12) \div 2
          : x2 \in {mul(x, x)} })

\* An angle reduced to [-pi, pi).
Wrap(r) == ((r + PI) % (2 * PI)) - PI

\* An angle of [-pi, pi) folded into [-pi/2, pi/2] about a quarter turn.
Fold(w) == IF w > HalfPi THEN PI - w ELSE IF w < -HalfPi THEN -PI - w ELSE w

\* math.sin / np.sin of an angle in radians.
sin(r) == The({ SinSeries(Fold(w)) : w \in {Wrap(r)} })

\* The series value of the cosine, rounded to 1/Scale: 0 at a quarter turn.
cosRounded(r) ==
    The({ (IF w > HalfPi \/ w < -HalfPi THEN -1 ELSE 1) * CosSeries(Fold(w))
          : w \in {Wrap(r)} })

\* The rounded cosine kept as it is: a cosine that can be exactly zero.
KeepZero(c) == c

\* A double below the resolution kept as the smallest positive magnitude.
NonZero(c) == IF c = 0 THEN 1 ELSE c

\* math.cos / np.cos of an angle in radians.  No double is an odd multiple of
\* pi/2, so math.cos never returns 0.0: at the double nearest pi/2 (which
\* lies below pi/2) it returns 6.1e-17.
cos(r) == The({ NonZero(c) : c \in {cosRounded(r)} })

\* atan u for |u| <= tan(pi/8): u(1 - u2/3 + u2^2/5 - ... + u2^6/13)
AtanSeries(u) ==
    The({ mul(y, Scale - mul(u2, Scale \div 3 - mul(u2, Scale \div 5 - mul(u2,
              Scale \div 7 - mul(u2, Scale \div 9 - mul(u2,
              Scale \div 11 - mul(u2, Scale \div 13)))))))
          : y \in {u}, u2 \in {mul(u, u)} })

\* atan t for 0 <= t <= 1; above tan(pi/8) by atan t = pi/4 + atan((t-1)/(t+1)).
Atan01(t) ==
    The({ IF x > 414214 THEN PI \div 4 + AtanSeries(div(x - Scale, x + Scale))
          ELSE AtanSeries(x)
          : x \in {t} })

\* math.atan2(y, x) of two doubles that are not negative zero; atan2(0, 0) = 0.
atan2(y, x) ==
    The({ The({ (IF v < 0 THEN -1 ELSE 1) * (IF u < 0 THEN PI - q ELSE q)
                : q \in { IF u = 0 /\ v = 0 THEN 0
                          ELSE IF Abs(u) >= Abs(v) THEN Atan01(div(Abs(v), Abs(u)))
                          ELSE HalfPi - Atan01(div(Abs(u), Abs(v))) } })
          : v \in {y}, u \in {x} })

\* DEG2RAD * d, d in degrees: d * pi / 180.
DEG2RAD(d) == The({ Sgn(x) * (mul(Abs(x), PI) \div 180) : x \in {d} })

\* RAD2DEG * r, r in radians: r * 180 / pi.
RAD2DEG(r) == The({ Sgn(x) * div(Abs(x) * 180, PI) : x \in {r} })

\* wgs84.py: semi major axis of Earth [m]
RE == 6378137

\* wgs84.py: 0.00335281066475
FLATTENING == 3353

\* wgs84.py: 0.00669437999014
E2 == 6694

(***************************************************************************)
(* Python values.  A call returns [exc |-> "none", val |-> v] or raises:   *)
(* [exc |-> <the exception>, val |-> <<>>].                                *)
(***************************************************************************)
Ret(v) == [exc |-> "none", val |-> v]

Raise(e) == [exc |-> e, val |-> << >>]

\* A double handed to ecef2llh. m is its value in metres; tag tells the two
\* finite doubles the integer cannot: "negzero" is -0.0 (m = 0), "huge" is a
\* finite double beyond sqrt(sys.float_info.max), about 1.34e154 (m = its sign).
Fin(m) == [m |-> m, tag |-> "fin"]

NegZero == [m |-> 0, tag |-> "negzero"]

Huge(s) == [m |-> s, tag |-> "huge"]

\* x**2 on a Python float raises OverflowError when the result is out of range.
sq_overflows(x) == x.tag = "huge"

\* math.atan2(y, x) with the sign of a zero x and y: atan2(+0, -0) = pi, atan2(-0, -0) = -pi.
atan2_signed(y, x) ==
    IF x.tag = "negzero" /\ y.m = 0
    THEN (IF y.tag = "negzero" THEN -PI ELSE PI)
    ELSE atan2(y.m, x.m)

\* s**3
cube(v) == The({ mul(mul(x, x), x) : x \in {v} })

\* p / cos(L) - Re: float division raises ZeroDivisionError on a zero divisor.
ecef2llh_h(p, cL, Re) ==
    The({ IF c = 0 THEN Raise("ZeroDivisionError") ELSE Ret(div(p, c) - Re)
          : c \in {cL} })

\* b = RE*(1-FLATTENING)
ecef2llh_b == mul(RE, Scale - FLATTENING)

\* ep = (RE**2 - b**2)/(b**2)
ecef2llh_ep ==
    div(mul(RE, RE) - mul(ecef2llh_b, ecef2llh_b), mul(ecef2llh_b, ecef2llh_b))

\* Re = RE/sqrt(1-E2*sin(L)**2)
ecef2llh_Re(L) == The({ div(RE, sqrt(Scale - mul(E2, mul(sL, sL)))) : sL \in {sin(L)} })

\* ecef2llh(x, y, z): [m, m, m] -> [deg, deg, m]
ecef2llh(x, y, z) ==
    IF sq_overflows(x) \/ sq_overflows(y) THEN Raise("OverflowError")
    ELSE
    The({ The({ The({ The({ IF h.exc # "none" THEN h
                            ELSE Ret(<<RAD2DEG(L), RAD2DEG(atan2_signed(y, x)), h.val>>)
                            : h \in {ecef2llh_h(p, cos(L), ecef2llh_Re(L))} })
                      : L \in {atan2(z.m + mul(mul(ecef2llh_ep, ecef2llh_b), cube(sin(theta))),
                                     p - mul(mul(E2, RE), cube(cos(theta))))} })
                : theta \in {atan2(mul(z.m, RE), mul(p, ecef2llh_b))} })
          : p \in {hypot(x.m, y.m)} })

\* rm = re * (1.0 - e2) / pow(1.0 - e2 * sin(lat)**2, 3.0 / 2.0)
llh2ecef_rm(w) == div(mul(RE, Scale - E2), pow_3_2(w))

\* The prime-vertical radius with the factor (1 - e2) of the meridional one.
llh2ecef_rn_reduced(w) == div(mul(RE, Scale - E2), sqrt(w))

\* rn = re / sqrt(1.0 - e2 * sin(lat)**2)
llh2ecef_rn(w) == div(RE, sqrt(w))

\* llh2ecef(lat, lon, H): [deg, deg, m] -> [m, m, m]
llh2ecef(lat, lon, H) ==
    The({ The({ <<mul(mul(llh2ecef_rn(w) + H, cos(la)), cos(lo)),
                  mul(mul(llh2ecef_rn(w) + H, cos(la)), sin(lo)),
                  mul(llh2ecef_rm(w) + H, sin(la))>>
                : w \in {Scale - mul(E2, mul(sin(la), sin(la)))} })
          : la \in {DEG2RAD(lat)}, lo \in {DEG2RAD(lon)} })

(***************************************************************************)
(* Vectors and 3x3 matrices (numpy arrays): tuples, and tuples of rows.    *)
(***************************************************************************)
\* R.dot(v)
dot(R, v) ==
    The({ [i \in 1..3 |-> mul(M[i][1], x[1]) + mul(M[i][2], x[2]) + mul(M[i][3], x[3])]
          : M \in {R}, x \in {v} })

\* R.T
T(R) == The({ [i \in 1..3 |-> [j \in 1..3 |-> M[j][i]]] : M \in {R} })

\* A.dot(B) of two matrices
matmul(A, B) ==
    The({ [i \in 1..3 |-> [j \in 1..3 |->
              mul(X[i][1], Y[1][j]) + mul(X[i][2], Y[2][j]) + mul(X[i][3], Y[3][j])]]
          : X \in {A}, Y \in {B} })

\* u - v
vsub(u, v) == The({ [i \in 1..3 |-> x[i] - y[i]] : x \in {u}, y \in {v} })

\* u + v
vadd(u, v) == The({ [i \in 1..3 |-> x[i] + y[i]] : x \in {u}, y \in {v} })

\* Ceg with the sign of its last entry lost: a reflection.
Ceg_reflected(sL, cL, sl, cl) ==
    <<<<-mul(sL, cl), -mul(sL, sl), cL>>,
      <<-sl, cl, 0>>,
      <<-mul(cL, cl), -mul(cL, sl), sL>>>>

\* Ceg of llh2DCM, and the matrix R of NED.from_ll and NED.from_ecef,
\* from the sines and cosines of latitude and longitude.
Ceg(sL, cL, sl, cl) ==
    <<<<-mul(sL, cl), -mul(sL, sl), cL>>,
      <<-sl, cl, 0>>,
      <<-mul(cL, cl), -mul(cL, sl), -sL>>>>

\* Cgn of llh2DCM: the rotation about the vertical by the wander azimuth.
Cgn(w) == <<<<w[2], w[1], 0>>, <<-w[1], w[2], 0>>, <<0, 0, Scale>>>>

\* llh2DCM(lat, lon, h, w): lat, lon in radians, w = (sin, cos) of the wander azimuth
llh2DCM(lat, lon, h, w) ==
    The({ matmul(Cgn(w), Ceg(sL, cL, sl, cl))
          : sL \in {sin(lat)}, cL \in {cos(lat)}, sl \in {sin(lon)}, cl \in {cos(lon)} })

(***************************************************************************)
(* Navigation frames.  A numpy array is an object: [id, val].  A frame is  *)
(* the named tuple (origin, R, type) of class cls.                         *)
(***************************************************************************)
\* FrameTypes = IntFlag("FrameTypes", "NED ENU")
FrameTypes_NED == 1

FrameTypes_ENU == 2

Array(id, val) == [id |-> id, val |-> val]

\* NavigationFrame.__new__(cls, origin, R, type)
NavigationFrame(cls, o, r, type) == [cls |-> cls, origin |-> o, R |-> r, type |-> type]

\* NED(o, r)
NED(o, r) == NavigationFrame("NED", o, r, FrameTypes_NED)

\* ENU(o, r)
ENU(o, r) == NavigationFrame("ENU", o, r, FrameTypes_ENU)

NoFrame == NavigationFrame("none", Array(0, << >>), Array(0, << >>), 0)

\* The attributes each class body defines; tuple stands for the named tuple
\* and the built-in tuple below it.
ClassDict(cls) ==
    IF cls = "NED" THEN {"__slots__", "__new__", "__eq__", "from_ll", "from_ecef"}
    ELSE IF cls = "ENU" THEN {"__slots__", "__new__", "__eq__"}
    ELSE IF cls = "NavigationFrame" THEN {"__slots__", "ecef2nav", "nav2ecef"}
    ELSE {"__new__", "__eq__", "__ne__", "origin", "R", "type"}

\* The method resolution order of NED and ENU.
MRO(cls) == <<cls, "NavigationFrame", "tuple">>

\* getattr(cls, name): the first class of the MRO that defines it.
Resolve(cls, name) ==
    IF name \in ClassDict(MRO(cls)[1]) THEN MRO(cls)[1]
    ELSE IF name \in ClassDict(MRO(cls)[2]) THEN MRO(cls)[2]
    ELSE IF name \in ClassDict(MRO(cls)[3]) THEN MRO(cls)[3]
    ELSE "AttributeError"

\* ecef2nav subtracting the origin after the rotation.
ecef2nav_rotate_first(self, p_ecef) == vsub(dot(self.R.val, p_ecef), self.origin.val)

\* nav2ecef applying R where the code applies its transpose.
nav2ecef_no_transpose(self, p_nav) == vadd(dot(self.R.val, p_nav), self.origin.val)

\* NavigationFrame.ecef2nav: self.R.dot(p_ecef - self.origin)
ecef2nav(self, p_ecef) == dot(self.R.val, vsub(p_ecef, self.origin.val))

\* NavigationFrame.nav2ecef: r = self.R.T; r.dot(p_nav) + self.origin
nav2ecef(self, p_nav) == vadd(dot(T(self.R.val), p_nav), self.origin.val)

\* Equality of frames field by field.
frame_eq_fields(self, other) ==
    /\ self.type = other.type
    /\ self.origin.val = other.origin.val
    /\ self.R.val = other.R.val

\* NED.__eq__ and ENU.__eq__: self.type == a.type
frame_eq(self, other) == self.type = other.type

\* u == v inside a tuple comparison, as a truth value: the same object is
\* equal; two arrays compare element by element into an array, whose truth
\* value is ambiguous (ValueError) when it has more than one element.
item_eq(u, v) == IF u.id = v.id THEN Ret(TRUE) ELSE Raise("ValueError")

\* tuple.__ne__: the first pair of items that differ decides.
tuple_ne(self, other) ==
    IF item_eq(self.origin, other.origin).exc # "none" THEN Raise("ValueError")
    ELSE IF item_eq(self.R, other.R).exc # "none" THEN Raise("ValueError")
    ELSE Ret(self.type # other.type)

\* tuple.__eq__
tuple_eq(self, other) ==
    IF item_eq(self.origin, other.origin).exc # "none" THEN Raise("ValueError")
    ELSE IF item_eq(self.R, other.R).exc # "none" THEN Raise("ValueError")
    ELSE Ret(self.type = other.type)

\* x == y on two frames
op_eq(x, y) ==
    IF Resolve(x.cls, "__eq__") = "tuple" THEN tuple_eq(x, y) ELSE Ret(frame_eq(x, y))

\* x != y on two frames
op_ne(x, y) ==
    IF Resolve(x.cls, "__ne__") = "tuple" THEN tuple_ne(x, y)
    ELSE The({ IF e.exc # "none" THEN e ELSE Ret(~e.val) : e \in {op_eq(x, y)} })

\* R of NED.from_ll
from_ll_R(lat, lon) ==
    The({ <<<<-mul(sL, cl), -mul(sL, sl), cL>>,
            <<-sl, cl, 0>>,
            <<-mul(cL, cl), -mul(cL, sl), -sL>>>>
          : sL \in {sin(lat)}, cL \in {cos(lat)}, sl \in {sin(lon)}, cl \in {cos(lon)} })

\* NED.from_ll(lat, lon, alt); id names the arrays it creates.
from_ll(lat, lon, alt, id) ==
    Ret(NED(Array(id + 1, llh2ecef(lat, lon, alt)),
            Array(id + 2, from_ll_R(DEG2RAD(lat), DEG2RAD(lon)))))

\* R of NED.from_ecef
from_ecef_R(lat, lon) ==
    The({ <<<<-mul(sL, cl), -mul(sL, sl), cL>>,
            <<-sl, cl, 0>>,
            <<-mul(cL, cl), -mul(cL, sl), -sL>>>>
          : sL \in {sin(lat)}, cL \in {cos(lat)}, sl \in {sin(lon)}, cl \in {cos(lon)} })

\* o_ecef = np.array([x,y,z])
from_ecef_origin(x, y, z) == <<x.m, y.m, z.m>>

\* NED.from_ecef(x, y, z); id names the arrays it creates.
from_ecef(x, y, z, id) ==
    The({ IF llh.exc # "none" THEN llh
          ELSE Ret(NED(Array(id + 1, from_ecef_origin(x, y, z)),
                       Array(id + 2, from_ecef_R(DEG2RAD(llh.val[1]), DEG2RAD(llh.val[2])))))
          : llh \in {ecef2llh(x, y, z)} })

(***************************************************************************)
(* Calls of the geodetic functions.  call is the last call made: its       *)
(* function, arguments and result.  A chained call takes the result of the *)
(* call before it as its arguments (llh2ecef of ecef2llh's result), and    *)
(* keeps that earlier call's arguments in src.                             *)
(***************************************************************************)
NoCall == [op |-> "none", arg |-> << >>, exc |-> "none", out |-> << >>,
           chained |-> FALSE, src |-> << >>]

\* Largest grid coordinate of the ECEF inputs, in thousands of kilometres.
GridMax == 5

GridIdx == (-GridMax) .. GridMax

\* ECEF points off the polar axis at a radius of sqrt(41) * 1000 km = 6403 km,
\* some 25 to 45 km above the ellipsoid.
ShellPoints ==
    {<<Fin(t[1] * 1000000), Fin(t[2] * 1000000), Fin(t[3] * 1000000)>> :
        t \in {u \in GridIdx \X GridIdx \X GridIdx :
                 u[1] * u[1] + u[2] * u[2] + u[3] * u[3] = 41}}

\* Points of the polar axis (x = y = 0), the centre among them.
AxisPoints == {<<Fin(0), Fin(0), Fin(z)>> : z \in {0, 1, -100, 6356752}}

\* Finite doubles an integer number of metres does not tell apart.
SpecialPoints ==
    {<<NegZero, Fin(0), Fin(1)>>, <<NegZero, NegZero, Fin(-100)>>,
     <<Fin(0), NegZero, Fin(1)>>, <<NegZero, Fin(3000000), Fin(1)>>,
     <<Huge(1), Fin(0), Fin(0)>>, <<Fin(0), Huge(-1), Fin(3000000)>>}

EcefInputs == ShellPoints \cup AxisPoints \cup SpecialPoints

LlhInputs ==
    {-60000000, -30000000, 0, 45000000} \X {-93000000, 0, 120000000} \X {0, 250}

\* The arrays a caller builds frames from: two equal origins that are
\* different objects, an orthonormal R, and R that are not rotations.
OriginPool ==
    {Array(1, <<0, 0, 0>>), Array(2, <<RE, 0, 0>>), Array(3, <<0, 0, 0>>)}

RPool ==
    {Array(11, <<<<Scale, 0, 0>>, <<0, Scale, 0>>, <<0, 0, Scale>>>>),
     Array(12, <<<<0, Scale, 0>>, <<-Scale, 0, 0>>, <<0, 0, Scale>>>>),
     Array(13, <<<<2 * Scale, 0, 0>>, <<0, 2 * Scale, 0>>, <<0, 0, 2 * Scale>>>>)}

\* Arguments of NED.from_ll: [deg, deg, m]
FromLlInputs == {<<0, 0, 0>>, <<45000000, -93000000, 250>>, <<-30000000, 120000000, 0>>}

\* Arguments of NED.from_ecef: [m, m, m]
FromEcefInputs ==
    {<<Fin(RE), Fin(0), Fin(0)>>, <<Fin(4000000), Fin(-3000000), Fin(4000000)>>,
     <<Fin(0), Fin(0), Fin(6356752)>>, <<NegZero, Fin(0), Fin(1)>>,
     <<Huge(1), Fin(0), Fin(0)>>}

\* Arguments of llh2DCM: lat, lon [rad], and the angle of the wander azimuth
\* pair w = (sin, cos).
DcmInputs == {0, 785398, -1047198} \X {0, 2094395} \X {0, 523599, -2000000}

\* ECEF points handed to ecef2nav, besides the frame's own origin.
NavPoints == {<<RE, 0, 0>>, <<1000000, -5000000, 3000000>>}

Classes == {"NED", "ENU"}

NoRes == [op |-> "none", cls |-> "none", arg |-> << >>, exc |-> "none",
          f |-> NoFrame, g |-> NoFrame, p |-> << >>, out |-> << >>]

Init ==
    /\ call = NoCall
    /\ a = NoFrame
    /\ b = NoFrame
    /\ res = NoRes

\* The names of the arrays a factory creates for a slot: arrays made by
\* two calls are never the same object.
FreshId(slot) == IF slot = "a" THEN 100 ELSE 200

Store(slot, f) ==
    /\ a' = IF slot = "a" THEN f ELSE a
    /\ b' = IF slot = "b" THEN f ELSE b

\* slot = NED(o, r) or slot = ENU(o, r)
Construct(slot, cls, o, r) ==
    /\ Store(slot, IF cls = "NED" THEN NED(o, r) ELSE ENU(o, r))
    /\ res' = [NoRes EXCEPT !.op = "new", !.cls = cls,
                            !.out = IF cls = "NED" THEN NED(o, r) ELSE ENU(o, r)]
    /\ UNCHANGED call

\* What a factory call cls.name(...) that gave r leaves in res.
FactoryRes(cls, name, t, r) ==
    [NoRes EXCEPT !.op = name, !.cls = cls, !.arg = t, !.exc = r.exc,
                  !.out = IF r.exc = "none" THEN r.val ELSE NoFrame]

\* slot = cls.from_ll(lat, lon, alt)
CallFromLl(slot, cls, t) ==
    \E r \in {IF Resolve(cls, "from_ll") = "AttributeError" THEN Raise("AttributeError")
              ELSE from_ll(t[1], t[2], t[3], FreshId(slot))} :
        /\ Store(slot, IF r.exc = "none" THEN r.val ELSE IF slot = "a" THEN a ELSE b)
        /\ res' = FactoryRes(cls, "from_ll", t, r)
        /\ UNCHANGED call

\* slot = cls.from_ecef(x, y, z)
CallFromEcef(slot, cls, t) ==
    \E r \in {IF Resolve(cls, "from_ecef") = "AttributeError" THEN Raise("AttributeError")
              ELSE from_ecef(t[1], t[2], t[3], FreshId(slot))} :
        /\ Store(slot, IF r.exc = "none" THEN r.val ELSE IF slot = "a" THEN a ELSE b)
        /\ res' = FactoryRes(cls, "from_ecef", t, r)
        /\ UNCHANGED call

\* llh2DCM(lat, lon, h, w)
CallLlh2DCM ==
    \E t \in DcmInputs, h \in {0} :
        /\ res' = [NoRes EXCEPT !.op = "llh2DCM", !.arg = t,
                                !.out = llh2DCM(t[1], t[2], h, <<sin(t[3]), cos(t[3])>>)]
        /\ UNCHANGED <<call, a, b>>

\* a.ecef2nav(p)
CallEcef2Nav ==
    /\ a # NoFrame
    /\ \E p \in NavPoints \cup {a.origin.val} :
           res' = [NoRes EXCEPT !.op = "ecef2nav", !.f = a, !.p = p, !.out = ecef2nav(a, p)]
    /\ UNCHANGED <<call, a, b>>

\* f.nav2ecef(f.ecef2nav(p)) on the frame of the ecef2nav call before it
CallNav2Ecef ==
    /\ res.op = "ecef2nav"
    /\ res' = [res EXCEPT !.op = "nav2ecef", !.out = nav2ecef(res.f, res.out)]
    /\ UNCHANGED <<call, a, b>>

\* a == b
CallEq ==
    /\ a # NoFrame
    /\ b # NoFrame
    /\ \E r \in {op_eq(a, b)} :
           res' = [NoRes EXCEPT !.op = "eq", !.f = a, !.g = b, !.exc = r.exc, !.out = r.val]
    /\ UNCHANGED <<call, a, b>>

\* a != b
CallNe ==
    /\ a # NoFrame
    /\ b # NoFrame
    /\ \E r \in {op_ne(a, b)} :
           res' = [NoRes EXCEPT !.op = "ne", !.f = a, !.g = b, !.exc = r.exc, !.out = r.val]
    /\ UNCHANGED <<call, a, b>>

\* llh2ecef(lat, lon, H) on fresh arguments
CallLlh2Ecef ==
    \E t \in LlhInputs :
        /\ call' = [op |-> "llh2ecef", arg |-> t, exc |-> "none",
                    out |-> llh2ecef(t[1], t[2], t[3]),
                    chained |-> FALSE, src |-> << >>]
        /\ UNCHANGED <<a, b, res>>

\* ecef2llh(x, y, z) on fresh arguments
CallEcef2Llh ==
    \E t \in EcefInputs :
        /\ call' = The({ [op |-> "ecef2llh", arg |-> t, exc |-> r.exc,
                          out |-> r.val, chained |-> FALSE, src |-> << >>]
                         : r \in {ecef2llh(t[1], t[2], t[3])} })
        /\ UNCHANGED <<a, b, res>>

\* llh2ecef applied to the result of ecef2llh(x, y, z)
ChainLlh2Ecef ==
    /\ call.op = "ecef2llh"
    /\ call.exc = "none"
    /\ ~call.chained
    /\ call' = [op |-> "llh2ecef", arg |-> call.out, exc |-> "none",
                out |-> llh2ecef(call.out[1], call.out[2], call.out[3]),
                chained |-> TRUE, src |-> call.arg]
    /\ UNCHANGED <<a, b, res>>

\* ecef2llh applied to the result of llh2ecef(lat, lon, H)
ChainEcef2Llh ==
    /\ call.op = "llh2ecef"
    /\ ~call.chained
    /\ call' = The({ [op |-> "ecef2llh",
                      arg |-> <<Fin(call.out[1]), Fin(call.out[2]), Fin(call.out[3])>>,
                      exc |-> r.exc, out |-> r.val, chained |-> TRUE, src |-> call.arg]
                     : r \in {ecef2llh(Fin(call.out[1]), Fin(call.out[2]), Fin(call.out[3]))} })
    /\ UNCHANGED <<a, b, res>>

\* The geodetic functions alone.
NextGeo == CallLlh2Ecef \/ CallEcef2Llh \/ ChainLlh2Ecef \/ ChainEcef2Llh

SpecGeo == Init /\ [][NextGeo]_vars

\* One frame, its factories and its transforms, and the DCM builder.
NextNav ==
    \/ \E cls \in Classes, o \in OriginPool, r \in RPool : Construct("a", cls, o, r)
    \/ \E cls \in Classes, t \in FromLlInputs : CallFromLl("a", cls, t)
    \/ \E cls \in Classes, t \in FromEcefInputs : CallFromEcef("a", cls, t)
    \/ CallLlh2DCM
    \/ CallEcef2Nav
    \/ CallNav2Ecef

SpecNav == Init /\ [][NextNav]_vars

\* Two frames built by the constructors, and their comparisons.
NextEq ==
    \/ \E slot \in {"a", "b"}, cls \in Classes, o \in OriginPool, r \in RPool :
           Construct(slot, cls, o, r)
    \/ CallEq
    \/ CallNe

SpecEq == Init /\ [][NextEq]_vars

Next ==
    \/ NextGeo
    \/ \E slot \in {"a", "b"}, cls \in Classes, o \in OriginPool, r \in RPool :
           Construct(slot, cls, o, r)
    \/ \E slot \in {"a", "b"}, cls \in Classes, t \in FromLlInputs : CallFromLl(slot, cls, t)
    \/ \E slot \in {"a", "b"}, cls \in Classes, t \in FromEcefInputs : CallFromEcef(slot, cls, t)
    \/ CallLlh2DCM
    \/ CallEcef2Nav
    \/ CallNav2Ecef
    \/ CallEq
    \/ CallNe

Spec == Init /\ [][Next]_vars

(***************************************************************************)
(* Properties.                                                             *)
(***************************************************************************)
\* Tolerance on an entry of R.R^T and on det(R), in units of 1/Scale.
TolDcm == 20

\* Tolerance on a position, in metres.
TolMetres == 100

\* Tolerance on an angle in degrees, in units of 1/Scale degree.
TolDeg == 1000

\* |u - v| <= tol in every component.
Near(u, v, tol) == \A i \in 1..3 : Abs(u[i] - v[i]) <= tol

\* Entry (i, j) of R.R^T
Gram(R, i, j) == mul(R[i][1], R[j][1]) + mul(R[i][2], R[j][2]) + mul(R[i][3], R[j][3])

\* R.R^T = identity within tol
Orthonormal(R, tol) ==
    \A i \in 1..3, j \in 1..3 :
        Abs(Gram(R, i, j) - (IF i = j THEN Scale ELSE 0)) <= tol

\* det(R)
Det(R) ==
      mul(R[1][1], mul(R[2][2], R[3][3]) - mul(R[2][3], R[3][2]))
    - mul(R[1][2], mul(R[2][1], R[3][3]) - mul(R[2][3], R[3][1]))
    + mul(R[1][3], mul(R[2][1], R[3][2]) - mul(R[2][2], R[3][1]))

\* R is a proper rotation within tol.
IsRotation(R, tol) == Orthonormal(R, tol) /\ Abs(Det(R) - Scale) <= tol

\* A frame built by NED.from_ll or NED.from_ecef (its arrays are fresh).
FactoryMade(f) == f.origin.id > 100

\* The point of the scenario lat = 45 deg, lon = -93 deg, alt = 250 m.
KnownLlh == <<45000000, -93000000, 250>>

\* C1: for every ECEF point off the polar axis and near the Earth's surface,
\* llh2ecef applied to the result of ecef2llh gives the point back in x, y
\* and z (here: within TolMetres, far wider than the 1e-6 m of the claim).
C1_RoundTripEcef ==
    (call.op = "llh2ecef" /\ call.chained /\ call.src \in ShellPoints)
        => Near(call.out, <<call.src[1].m, call.src[2].m, call.src[3].m>>, TolMetres)

\* C6: ecef2llh of llh2ecef(45, -93, 250) recovers (45, -93, 250) in every
\* component (here: within TolDeg for the angles and TolMetres for the
\* height, far wider than the 1e-6 of the claim).
C6_KnownPointRecovered ==
    (call.op = "ecef2llh" /\ call.chained /\ call.src = KnownLlh)
        => /\ call.exc = "none"
           /\ Abs(call.out[1] - KnownLlh[1]) <= TolDeg
           /\ Abs(call.out[2] - KnownLlh[2]) <= TolDeg
           /\ Abs(call.out[3] - KnownLlh[3]) <= TolMetres

\* C8: llh2ecef(0, 0, 0) returns exactly (RE, 0, 0).
C8_EquatorPoint ==
    (call.op = "llh2ecef" /\ call.arg = <<0, 0, 0>>) => call.out = <<RE, 0, 0>>

\* C8 witness: llh2ecef(0, 0, 0) has been called.
C8_Witness ==
    call.op = "llh2ecef" /\ ~call.chained /\ call.arg = <<0, 0, 0>> /\ call.out[1] = RE

\* C9 as stated: ecef2llh returns without raising for every finite triple,
\* and the longitude is 0 whenever x = y = 0.
C9_NoErrorPath ==
    (call.op = "ecef2llh" /\ ~call.chained)
        => /\ call.exc = "none"
           /\ (call.arg[1].m = 0 /\ call.arg[2].m = 0) => call.out[2] = 0

\* C9 amended: ecef2llh returns without raising for every finite triple
\* whose x**2 and y**2 do not overflow, the polar axis and the centre
\* included; when x = y = 0 the longitude is 0 if x is +0.0 and 180 degrees
\* in magnitude if x is -0.0.
C9_NoErrorPathInRange ==
    (call.op = "ecef2llh" /\ ~call.chained
        /\ ~sq_overflows(call.arg[1]) /\ ~sq_overflows(call.arg[2]))
        => /\ call.exc = "none"
           /\ (call.arg[1] = Fin(0) /\ call.arg[2].m = 0) => call.out[2] = 0
           /\ (call.arg[1] = NegZero /\ call.arg[2].m = 0) => Abs(call.out[2]) = 180 * Scale

\* C9 witness: ecef2llh has returned for a point of the polar axis, where
\* p = 0 is divided by cos(L) at L = 90 degrees.
C9_Witness ==
    /\ call.op = "ecef2llh" /\ ~call.chained
    /\ call.arg = <<Fin(0), Fin(0), Fin(6356752)>>
    /\ call.exc = "none"
    /\ call.out[2] = 0

\* C2: ENU.from_ll and ENU.from_ecef succeed and return a frame of kind ENU
\* whose rows are East, North and Up.
C2_EnuFactories ==
    (res.op \in {"from_ll", "from_ecef"} /\ res.cls = "ENU")
        => /\ res.exc = "none"
           /\ res.out.cls = "ENU"
           /\ res.out.type = FrameTypes_ENU
           /\ res.out.R.val[1][3] = 0

\* C3: a == b evaluates to true exactly when a and b are of the same kind,
\* whatever their origins and rotations.
C3_KindOnlyEquality ==
    res.op = "eq" => (res.exc = "none" /\ (res.out <=> (res.f.cls = res.g.cls)))

\* C3 witness: two NED frames with different origins and different
\* rotations have compared equal.
C3_Witness ==
    /\ res.op = "eq"
    /\ res.f.cls = "NED" /\ res.g.cls = "NED"
    /\ res.f.origin.val # res.g.origin.val
    /\ res.f.R.val # res.g.R.val
    /\ res.out = TRUE

\* C10: a != b evaluates without error and is true exactly when the kinds
\* of a and b differ.
C10_NeConsistent ==
    res.op = "ne" => (res.exc = "none" /\ (res.out <=> (res.f.cls # res.g.cls)))

\* C4 as stated: f.nav2ecef(f.ecef2nav(p)) gives p back for any frame,
\* whatever R it was constructed with.
C4_RoundTripAnyFrame ==
    res.op = "nav2ecef" => Near(res.out, res.p, TolMetres)

\* C4 amended: f.nav2ecef(f.ecef2nav(p)) gives p back for every frame whose
\* R is orthonormal, as the R of NED.from_ll and NED.from_ecef are.
C4_RoundTripOrthonormal ==
    (res.op = "nav2ecef" /\ Orthonormal(res.f.R.val, TolDcm))
        => Near(res.out, res.p, TolMetres)

\* C4 witness: a point away from the origin has gone through ecef2nav and
\* nav2ecef of a frame made by a factory at 45 deg, -93 deg.
C4_Witness ==
    /\ res.op = "nav2ecef"
    /\ FactoryMade(res.f)
    /\ res.f.R.val[2][1] # 0 /\ res.f.R.val[1][1] # 0
    /\ res.p = <<1000000, -5000000, 3000000>>
    /\ Near(res.out, res.p, TolMetres)

\* C5: every matrix returned by llh2DCM for a wander-azimuth pair
\* (sin w, cos w), and every R built by NED.from_ll or NED.from_ecef, is a
\* proper rotation: R.R^T is the identity and det(R) is +1.
C5_ProperRotation ==
    /\ res.op = "llh2DCM" => IsRotation(res.out, TolDcm)
    /\ (res.op \in {"from_ll", "from_ecef"} /\ res.exc = "none")
           => IsRotation(res.out.R.val, TolDcm)

\* C5 witness: llh2DCM has returned for a latitude, a longitude and a
\* wander azimuth that are all non-zero.
C5_Witness ==
    /\ res.op = "llh2DCM"
    /\ res.arg[1] # 0 /\ res.arg[2] # 0 /\ res.arg[3] # 0
    /\ IsRotation(res.out, TolDcm)

\* C7: f.ecef2nav(f.origin) is the zero vector for every frame f returned
\* by NED.from_ll or NED.from_ecef, and the origin of NED.from_ecef(x, y, z)
\* is the point (x, y, z) itself.
C7_OriginIsZero ==
    /\ (res.op = "ecef2nav" /\ FactoryMade(res.f) /\ res.p = res.f.origin.val)
           => res.out = <<0, 0, 0>>
    /\ (res.op = "from_ecef" /\ res.exc = "none")
           => res.out.origin.val = <<res.arg[1].m, res.arg[2].m, res.arg[3].m>>

\* C7 witness: ecef2nav has mapped the origin of a frame made by
\* NED.from_ecef(4000000, -3000000, 4000000).
C7_Witness ==
    /\ res.op = "ecef2nav"
    /\ FactoryMade(res.f)
    /\ res.f.origin.val = <<4000000, -3000000, 4000000>>
    /\ res.p = res.f.origin.val
    /\ res.out = <<0, 0, 0>>

====
